---------------------------- MODULE Spec2Model ----------------------------
(* PhotoBooth LAN print server: the POST /print handler (src/src/index.ts)   *)
(* and the print dispatcher (src/src/print.ts) as a state machine.  One      *)
(* action is one run of the event loop: from the completion of an awaited    *)
(* operation (file write, OS command, file removal) to the next await.       *)
EXTENDS Integers, Sequences, FiniteSets, TLC

VARIABLES
  platform,           \* process.platform
  osDefault,          \* the OS's default printer ("" when none is configured)
  osPrinters,         \* the printers the OS has installed, in the OS's order
  boot,               \* position of the startup block of index.ts
  printerName,        \* index.ts: let printerName
  availablePrinters,  \* index.ts: let availablePrinters
  printCount,         \* index.ts: let printCount
  advertised,         \* the txt record given to bonjour.publish (<<>> before)
  files,              \* the paths that exist on the filesystem
  nextJob,            \* number of job identifiers handed out by uuidv4 so far
  jobs,               \* per request slot: the locals of the /print handler
  refresh,            \* the GET /printers/refresh handler
  observed            \* the last response of a read-only route (<<>> before)

vars == <<platform, osDefault, osPrinters, boot, printerName, availablePrinters,
          printCount, advertised, files, nextJob, jobs, refresh, observed>>

-----------------------------------------------------------------------------
(* Bounds of the model.                                                      *)

\* largest copies value a request carries
MaxCopies == 2
\* number of POST /print requests per handler slot that get a job identifier
\* in one behaviour
MaxJobs == 1

-----------------------------------------------------------------------------
(* Values.                                                                   *)

\* an optional value: <<>> (absent, JS undefined) or <<v>>
Opt(S) == {<<>>} \cup {<<v>> : v \in S}

\* destructuring default: `{ x = d } = body`
Default(o, d) == IF o = <<>> THEN d ELSE o[1]

Platforms == {"win32", "linux"}

\* printer names; BlankNames are the names made of white space only
BlankNames == {"  "}
PrinterNames == {"", "  ", "P1", "P2", "O'Neil"}

\* String.prototype.trim on the names of the model: only the blank names
\* carry leading or trailing white space
Trim(s) == IF s \in BlankNames THEN "" ELSE s

\* s.replace(/'/g, "''") on the names of the model
EscapeQuotes(s) == IF s = "O'Neil" THEN "O''Neil" ELSE s

\* String.prototype.toLowerCase on the extensions of the model
ToLower(s) ==
  CASE s = "PNG" -> "png"
    [] s = "JPG" -> "jpg"
    [] s = "Gif" -> "gif"
    [] OTHER -> s

\* String(n) for an integer n, as the sequence of its characters
RECURSIVE Dec(_)
Dec(n) ==
  LET d == <<"0", "1", "2", "3", "4", "5", "6", "7", "8", "9">>[(n % 10) + 1]
  IN  IF n < 10 THEN <<d>> ELSE Dec(n \div 10) \o <<d>>

StringOf(n) == IF n < 0 THEN <<"-">> \o Dec(-n) ELSE Dec(n)

\* A path is the sequence of its pieces: names, "/" and "." separators.
\* os.tmpdir()
tempDir == <<"tmp">>

\* path.join(dir, name)
PathJoin(dir, name) == dir \o <<"/">> \o name

\* join(dirname(__dirname), "src", "public", "images", "watermark.jpg")
watermarkPath ==
  PathJoin(PathJoin(PathJoin(PathJoin(<<"app">>, <<"src">>), <<"public">>),
                    <<"images">>), <<"watermark", ".", "jpg">>)

\* uuidv4(): the n-th identifier it hands out; no two are equal
Uuid(n) == <<"u1", "u2", "u3", "u4", "u5">>[n]

-----------------------------------------------------------------------------
(* The print dispatcher, src/src/print.ts.  A job record holds the locals of *)
(* one call: j.log is the sequence of OS invocations the call has issued,    *)
(* the last one still "running" while j.pc = "exec".                         *)

Outcomes == {"ok", "error", "timeout"}

\* a variant of isImageFile whose pattern lacks the `$` anchor
isImageFileUnanchored(filePath) ==
  \E k \in 1 .. Len(filePath) - 1 :
    filePath[k] = "." /\ ToLower(filePath[k + 1]) \in {"png", "jpg", "jpeg", "bmp", "gif"}

\* /\.(png|jpg|jpeg|bmp|gif)$/i.test(filePath)
ImageExtensions == {"png", "jpg", "jpeg", "bmp", "gif"}

isImageFile(filePath) ==
  /\ Len(filePath) >= 2
  /\ filePath[Len(filePath) - 1] = "."
  /\ ToLower(filePath[Len(filePath)]) \in ImageExtensions

\* printerName && printerName.trim().length > 0
HasPrinter(name) == name # "" /\ Trim(name) # ""

\* const fileToPrint = hasAccess ? filePath : <watermark>
FileToPrint(filePath, hasAccess) == IF hasAccess THEN filePath ELSE watermarkPath

\* a variant of CopiesToPrint that keeps the requested count
CopiesToPrintAsRequested(copies, hasAccess) == copies

\* const copiesToPrint = hasAccess ? copies : 1
CopiesToPrint(copies, hasAccess) == IF hasAccess THEN copies ELSE 1

\* An OS invocation is recorded with the command, its literal arguments and
\* what it carries: the file, the copy count (<<>> when it carries none) and
\* the printer name (<<>> when it carries none).

\* a variant of DotNetInvocation whose script never sets the copy count
DotNetInvocationNoCopies(file, copies, printer) ==
  [method |-> 1, cmd |-> "powershell",
   args |-> <<"-NoProfile", "-ExecutionPolicy", "Bypass", "-Command">>,
   file |-> [k \in DOMAIN file |-> EscapeQuotes(file[k])],
   copies |-> <<>>,
   printer |-> <<IF printer # "" THEN EscapeQuotes(printer) ELSE "">>,
   result |-> "running"]

\* printWithDotNetPrinting: one powershell process whose script holds the
\* quoted file, `$copies = ${copies}` and the quoted printer name
DotNetInvocation(file, copies, printer) ==
  [method |-> 1, cmd |-> "powershell",
   args |-> <<"-NoProfile", "-ExecutionPolicy", "Bypass", "-Command">>,
   file |-> [k \in DOMAIN file |-> EscapeQuotes(file[k])],
   copies |-> <<StringOf(copies)>>,
   printer |-> <<IF printer # "" THEN EscapeQuotes(printer) ELSE "">>,
   result |-> "running"]

\* printWithPowerShell, one pass of its loop: Start-Process -Verb Print
PowerShellInvocation(file, copies, printer) ==
  [method |-> 2, cmd |-> "powershell",
   args |-> <<"-NoProfile", "-Command">>,
   file |-> file, copies |-> <<>>, printer |-> <<>>,
   result |-> "running"]

\* a variant of ImageViewInvocation that tests `printerName` without trimming
\* it
ImageViewInvocationUntrimmed(file, copies, printer) ==
  [method |-> 3, cmd |-> "rundll32.exe",
   args |-> <<"shimgvw.dll,ImageView_PrintTo">>,
   file |-> file, copies |-> <<>>,
   printer |-> IF printer # "" THEN <<printer>> ELSE <<>>,
   result |-> "running"]

\* printWithImageView, one pass of its loop: rundll32 shimgvw.dll
ImageViewInvocation(file, copies, printer) ==
  [method |-> 3, cmd |-> "rundll32.exe",
   args |-> <<"shimgvw.dll,ImageView_PrintTo">>,
   file |-> file, copies |-> <<>>,
   printer |-> IF HasPrinter(printer) THEN <<printer>> ELSE <<>>,
   result |-> "running"]

\* a variant of LpInvocation that tests `printerName` without trimming it
LpInvocationUntrimmed(file, copies, printer) ==
  [method |-> 0, cmd |-> "lp",
   args |-> (IF printer # "" THEN <<"-d">> ELSE <<>>) \o <<"-n">>,
   file |-> file, copies |-> <<StringOf(copies)>>,
   printer |-> IF printer # "" THEN <<printer>> ELSE <<>>,
   result |-> "running"]

\* the non-Windows branch of print: lp [-d printer] -n copies file
LpInvocation(file, copies, printer) ==
  [method |-> 0, cmd |-> "lp",
   args |-> (IF HasPrinter(printer) THEN <<"-d">> ELSE <<>>) \o <<"-n">>,
   file |-> file, copies |-> <<StringOf(copies)>>,
   printer |-> IF HasPrinter(printer) THEN <<printer>> ELSE <<>>,
   result |-> "running"]

\* execFileAsync(...): the child process is started and awaited
StartInvocation(j, inv) == [j EXCEPT !.pc = "exec", !.log = Append(@, inv)]

\* print() settles: resolves, or rejects with err
Resolve(j) == [j EXCEPT !.pc = "returned"]

Reject(j, err) == [j EXCEPT !.pc = "thrown", !.err = err]

\* new Error("All Windows printing methods failed").message
AllMethodsFailed == <<"All Windows printing methods failed">>

\* `return true` / `return false` of tryWindowsPrintMethods, and the
\* `if (!printSuccess) throw` of print
WindowsResult(j, printSuccess) ==
  IF printSuccess THEN Resolve(j)
  ELSE Reject(j, AllMethodsFailed)

\* a variant of LoopHead that does not await the invocation of a copy before
\* it starts the next one
LoopHeadNoAwait(j) ==
  IF j.i < j.copiesToPrint
  THEN LET inv == IF j.method = 2
                  THEN PowerShellInvocation(j.fileToPrint, j.copiesToPrint, j.selectedPrinter)
                  ELSE ImageViewInvocation(j.fileToPrint, j.copiesToPrint, j.selectedPrinter)
       IN  [j EXCEPT !.pc = "exec",
                     !.log = @ \o (IF j.i + 1 < j.copiesToPrint THEN <<inv, inv>> ELSE <<inv>>)]
  ELSE WindowsResult(j, TRUE)

\* the head of `for (let i = 0; i < copies; i++)` in method 2 or 3
LoopHead(j) ==
  IF j.i < j.copiesToPrint
  THEN StartInvocation(j,
         IF j.method = 2
         THEN PowerShellInvocation(j.fileToPrint, j.copiesToPrint, j.selectedPrinter)
         ELSE ImageViewInvocation(j.fileToPrint, j.copiesToPrint, j.selectedPrinter))
  ELSE WindowsResult(j, TRUE)

\* tryWindowsPrintMethods from method m on
TryMethod(j, m) ==
  CASE m = 1 ->
         StartInvocation([j EXCEPT !.method = 1],
           DotNetInvocation(j.fileToPrint, j.copiesToPrint, j.selectedPrinter))
    [] m = 2 -> LoopHead([j EXCEPT !.method = 2, !.i = 0])
    [] m = 3 ->
         IF isImageFile(j.fileToPrint)
         THEN LoopHead([j EXCEPT !.method = 3, !.i = 0])
         ELSE WindowsResult(j, FALSE)
    [] OTHER -> WindowsResult(j, FALSE)

\* a variant of EnterPrint that prints one copy more when a paper size is
\* given
EnterPrintSparePerSheet(j) ==
  LET c == [j EXCEPT !.fileToPrint = FileToPrint(j.filePath, j.hasAccess),
                     !.copiesToPrint = CopiesToPrint(j.copies, j.hasAccess)
                                       + (IF j.paperSize # <<>> THEN 1 ELSE 0)]
  IN  IF platform = "win32"
      THEN TryMethod(c, 1)
      ELSE StartInvocation([c EXCEPT !.method = 0],
             LpInvocation(c.fileToPrint, c.copiesToPrint, c.selectedPrinter))

\* print(): from the call to its first await
EnterPrint(j) ==
  LET c == [j EXCEPT !.fileToPrint = FileToPrint(j.filePath, j.hasAccess),
                     !.copiesToPrint = CopiesToPrint(j.copies, j.hasAccess)]
  IN  IF platform = "win32"
      THEN TryMethod(c, 1)
      ELSE StartInvocation([c EXCEPT !.method = 0],
             LpInvocation(c.fileToPrint, c.copiesToPrint, c.selectedPrinter))

\* the message of the error execFileAsync rejects with: it quotes the command
ExecError(inv, outcome) == <<"Command failed", inv.cmd, inv.file, outcome>>

\* a variant of MethodContinues in which method 1 lacks its `return true`
MethodFallsThrough(j) ==
  CASE j.method = 0 -> Resolve(j)
    [] j.method = 1 -> TryMethod(j, 2)
    [] OTHER -> LoopHead([j EXCEPT !.i = @ + 1])

\* a method's try block after its awaited invocation succeeded
MethodContinues(j) ==
  CASE j.method = 0 -> Resolve(j)
    [] j.method = 1 -> WindowsResult(j, TRUE)
    [] OTHER -> LoopHead([j EXCEPT !.i = @ + 1])

\* a variant of MethodFailed in which a timeout is not caught
MethodFailedTimeoutFatal(j, outcome) ==
  IF j.method = 0 \/ outcome = "timeout"
  THEN Reject(j, ExecError(j.log[Len(j.log)], outcome))
  ELSE TryMethod(j, j.method + 1)

\* a variant of MethodFailed in which the failure of a method is not caught
MethodFailedPropagates(j, outcome) ==
  Reject(j, ExecError(j.log[Len(j.log)], outcome))

\* the catch block of the method that failed: try the next one
MethodFailed(j, outcome) ==
  IF j.method = 0
  THEN Reject(j, ExecError(j.log[Len(j.log)], outcome))
  ELSE TryMethod(j, j.method + 1)

\* what the awaiting code sees of an outcome: the promise is fulfilled, or
\* rejected (a non-zero exit, a spawn error and a timeout all reject it)
Settled(outcome) == IF outcome = "ok" THEN "ok" ELSE "failed"

\* the awaited OS invocation completes; run print() to its next await
AfterInvocation(j, outcome) ==
  LET d == [j EXCEPT !.log[Len(j.log)].result = Settled(outcome)]
  IN  IF Settled(outcome) = "ok" THEN MethodContinues(d) ELSE MethodFailed(d, outcome)

-----------------------------------------------------------------------------
(* Printer inventory, src/src/print.ts.  The output of an OS query is the    *)
(* sequence of its words (lpstat) or of its lines (powershell).              *)

\* `lpstat -d`
LpstatDefaultStdout ==
  IF osDefault = "" THEN <<"no", "system", "default", "destination">>
  ELSE <<"system", "default", "destination:", osDefault>>

\* stdout.match(/system default destination:\s+(\S+)/): <<name>> or <<>>
RECURSIVE MatchDefault(_)
MatchDefault(w) ==
  IF Len(w) < 4 THEN <<>>
  ELSE IF SubSeq(w, 1, 3) = <<"system", "default", "destination:">> THEN <<w[4]>>
  ELSE MatchDefault(Tail(w))

\* `(Get-CimInstance Win32_Printer | Where-Object { $_.Default }).Name`
CimDefaultStdout == IF osDefault = "" THEN <<>> ELSE <<osDefault>>

\* `stdout.trim() || undefined` on the lines of the query
TrimOrUndefined(lines) ==
  IF lines = <<>> \/ Trim(lines[1]) = "" THEN <<>> ELSE <<Trim(lines[1])>>

\* detectDefaultPrinter(): <<name>> or <<>> (undefined); every failure of the
\* query is caught and gives undefined
detectDefaultPrinter(outcome) ==
  IF outcome # "ok" THEN <<>>
  ELSE IF platform = "win32" THEN TrimOrUndefined(CimDefaultStdout)
  ELSE MatchDefault(LpstatDefaultStdout)

\* `lpstat -p`: one line "printer <name> is idle." per printer
RECURSIVE LpstatPrintersStdout(_)
LpstatPrintersStdout(ps) ==
  IF ps = <<>> THEN <<>>
  ELSE <<"printer", Head(ps), "is", "idle.">> \o LpstatPrintersStdout(Tail(ps))

\* stdout.match(/printer\s+(\S+)/g) mapped with replace(/printer\s+/, ''):
\* the word after each word "printer", matches not overlapping
RECURSIVE MatchPrinters(_)
MatchPrinters(w) ==
  IF Len(w) < 2 THEN <<>>
  ELSE IF w[1] = "printer" THEN <<w[2]>> \o MatchPrinters(SubSeq(w, 3, Len(w)))
  ELSE MatchPrinters(Tail(w))

\* `(Get-CimInstance Win32_Printer).Name`: one line per printer
CimPrintersStdout == osPrinters

\* stdout.trim().split('\n').filter(name => name.trim().length > 0)
SplitLines(lines) == SelectSeq(lines, LAMBDA name : Trim(name) # "")

\* a variant of getAvailablePrinters that returns only the printers the
\* server does not know yet
getAvailablePrintersUnknownOnly(outcome) ==
  IF outcome # "ok" THEN <<>>
  ELSE SelectSeq(osPrinters,
                 LAMBDA name : \A k \in DOMAIN availablePrinters :
                                 availablePrinters[k] # name)

\* getAvailablePrinters(): every failure of the query is caught and gives []
getAvailablePrinters(outcome) ==
  IF outcome # "ok" THEN <<>>
  ELSE IF platform = "win32" THEN SplitLines(CimPrintersStdout)
  ELSE MatchPrinters(LpstatPrintersStdout(osPrinters))

-----------------------------------------------------------------------------
(* The server, src/src/index.ts.                                             *)

Slots == {1}
RefreshSlots == {1, 2}

\* the values a request body gives its fields (a value of `data` is the JSON
\* type and the text of the literal)
CopiesValues == 0 .. MaxCopies
MimeTypes == {"image/png", "image/jpeg", "application/pdf"}
DataValues == {[t |-> "string", v |-> "AAAA"], [t |-> "string", v |-> ""],
               [t |-> "number", v |-> "7"], [t |-> "object", v |-> "null"]}
TargetPrinters == {"", "  ", "P1", "O'Neil"}
Templates == {[widthInch |-> 2, heightInch |-> 6], [widthInch |-> 4, heightInch |-> 6]}

\* the request bodies: every combination of the fields around a usable
\* `data`, and a few bodies around each unusable one
Bodies ==
  [copies : Opt(CopiesValues), mimeType : Opt(MimeTypes),
   data : {<<[t |-> "string", v |-> "AAAA"]>>},
   targetPrinter : Opt(TargetPrinters), hasAccess : Opt(BOOLEAN),
   template : Opt(Templates)]
  \cup
  [copies : Opt({MaxCopies}), mimeType : {<<>>}, data : Opt(DataValues),
   targetPrinter : Opt({"P1"}), hasAccess : Opt({TRUE}), template : {<<>>}]

\* the locals of a /print handler that is not running; j.resp holds the
\* responses sent, j.cleanup how fs.rm ended ("" while it has not) and
\* j.warned whether the handler logged its unknown-printer warning
IdleJob ==
  [pc |-> "idle", caller |-> "handler", copies |-> 1, ext |-> "",
   data |-> <<>>, targetPrinter |-> <<>>, warned |-> FALSE,
   hasAccess |-> FALSE, template |-> <<>>, paperSize |-> <<>>,
   selectedPrinter |-> "", jobId |-> "", filePath |-> <<>>,
   fileToPrint |-> <<>>, copiesToPrint |-> 0, method |-> 0, i |-> 0,
   log |-> <<>>, resp |-> <<>>, err |-> <<>>, cleanup |-> ""]

\* a variant of MissingData that tests `!data` only
MissingDataFalsyOnly(data) ==
  \/ data = <<>>
  \/ data[1].v \in {"", "null"}

\* !data || typeof data !== "string"
MissingData(data) ==
  \/ data = <<>>
  \/ data[1].t # "string"
  \/ data[1].v = ""

\* a || b on strings
OrElse(a, b) == IF a # "" THEN a ELSE b

\* a variant of SelectedPrinter that keeps a requested printer only when it
\* is among the available ones
SelectedPrinterKnownOnly(targetPrinter) ==
  IF \E k \in DOMAIN availablePrinters : availablePrinters[k] = Default(targetPrinter, "")
  THEN Default(targetPrinter, "")
  ELSE printerName

\* a variant of SelectedPrinter that prefers the stored default
SelectedPrinterDefaultFirst(targetPrinter) ==
  OrElse(printerName, Default(targetPrinter, ""))

\* const selectedPrinter = targetPrinter || printerName
SelectedPrinter(targetPrinter) == OrElse(Default(targetPrinter, ""), printerName)

\* availablePrinters.includes(name)
Includes(list, name) == \E k \in DOMAIN list : list[k] = name

\* selectedPrinter && selectedPrinter !== "default" &&
\* !availablePrinters.includes(selectedPrinter): the handler only warns
UnknownPrinter(selectedPrinter) ==
  /\ selectedPrinter # ""
  /\ selectedPrinter # "default"
  /\ ~Includes(availablePrinters, selectedPrinter)

\* a variant of Ext that names a PDF artifact .pdf
ExtWithPdf(mimeType) ==
  IF mimeType = "image/jpeg" THEN "jpg"
  ELSE IF mimeType = "application/pdf" THEN "pdf" ELSE "png"

\* const ext = mimeType === "image/jpeg" ? "jpg" : "png"
Ext(mimeType) == IF mimeType = "image/jpeg" THEN "jpg" ELSE "png"

\* a variant of FilePath that names the file without the job identifier
FilePathFixedName(jobId, ext) == PathJoin(tempDir, <<"print", ".", ext>>)

\* path.join(tempDir, `${jobId}.${ext}`)
FilePath(jobId, ext) == PathJoin(tempDir, <<jobId, ".", ext>>)

\* 2x6 templates print on 4x6 paper
PaperSize(template) ==
  IF template # <<>> /\ template[1].widthInch = 2 /\ template[1].heightInch = 6
  THEN <<[widthInch |-> 4, heightInch |-> 6]>>
  ELSE <<>>

troubleshooting ==
  [message |-> "Print failed. This might be due to printer compatibility issues.",
   suggestions |-> 4]

\* leaving the `try` block: its local paperSize goes out of scope
LeaveTry(j) == [j EXCEPT !.paperSize = <<>>, !.template = <<>>]

\* res.json / res.status(n).json
Respond(j, status, body) == [j EXCEPT !.resp = Append(@, [status |-> status, body |-> body])]

\* the handler returns
Return(j) == [j EXCEPT !.pc = "done"]

\* the `finally` block: fs.rm(filePath, { force: true }) is started
StartCleanup(j) == [j EXCEPT !.pc = "rm"]

\* a variant of OnPrintResolved that reports the copies it printed
OnPrintResolvedPrintedCopies(j) ==
  StartCleanup(Respond(LeaveTry(j), 200,
    [jobId |-> j.jobId, copies |-> j.copiesToPrint,
     printer |-> OrElse(j.selectedPrinter, "default"), success |-> TRUE]))

\* a variant of OnPrintResolved that starts the cleanup without having
\* responded
CleanupBeforeResponse(j) == StartCleanup(LeaveTry(j))

\* after `await print(...)` resolved: the success response, then `finally`
OnPrintResolved(j) ==
  StartCleanup(Respond(LeaveTry(j), 200,
    [jobId |-> j.jobId, copies |-> j.copies,
     printer |-> OrElse(j.selectedPrinter, "default"), success |-> TRUE]))

\* a variant of OnError whose response carries the error message only
OnErrorBare(j, err) ==
  StartCleanup(Respond([LeaveTry(j) EXCEPT !.err = err], 500,
    [error |-> err, jobId |-> j.jobId,
     printer |-> OrElse(j.selectedPrinter, "default"), success |-> FALSE]))

\* a variant of OnError that logs the failure and sends no response
OnErrorSilent(j, err) == StartCleanup([LeaveTry(j) EXCEPT !.err = err])

\* the `catch` block: the failure response, then `finally`
OnError(j, err) ==
  StartCleanup(Respond([LeaveTry(j) EXCEPT !.err = err], 500,
    [error |-> err, jobId |-> j.jobId,
     printer |-> OrElse(j.selectedPrinter, "default"), success |-> FALSE,
     troubleshooting |-> troubleshooting]))

\* the message of a failed fs.writeFile
FsError(path) == <<"EACCES: permission denied, open", path>>

\* the handler from the point where print() settled (d.pc is "returned" or
\* "thrown") to its next await; a direct caller of print() does nothing more
AfterPrint(d) ==
  IF d.caller # "handler" \/ d.pc \notin {"returned", "thrown"} THEN d
  ELSE IF d.pc = "returned" THEN OnPrintResolved(d)
  ELSE OnError(d, d.err)

\* printCount += copies, on the success path only
CountAfter(d) ==
  IF d.caller = "handler" /\ d.pc = "returned" THEN printCount + d.copies
  ELSE printCount

\* a variant of RoutesRegistered in which the routes are registered when the
\* module is loaded, before the startup block awaits
RoutesRegisteredAtLoad == TRUE

\* a variant of RoutesRegistered in which the server listens once the default
\* printer has been detected
RoutesRegisteredAfterDetection == boot # "detectDefault"

\* the routes exist once the startup block has registered them, after its
\* two awaits
RoutesRegistered == boot = "listening"

\* POST /print arrives with `body`: validation, printer selection, job
\* identifier, and the start of fs.writeFile
PrintRequest(s, body) ==
  /\ RoutesRegistered
  /\ jobs[s].pc = "idle"
  /\ IF MissingData(body.data)
     THEN /\ jobs' = [jobs EXCEPT ![s] =
                 Return(Respond([IdleJob EXCEPT !.data = body.data,
                                                !.targetPrinter = body.targetPrinter],
                                400, [error |-> <<"Missing base64 data">>]))]
          /\ UNCHANGED nextJob
     ELSE /\ nextJob < MaxJobs * Cardinality(DOMAIN jobs)
          /\ nextJob' = nextJob + 1
          /\ jobs' = [jobs EXCEPT ![s] =
               [IdleJob EXCEPT
                  !.pc = "write",
                  !.data = body.data,
                  !.targetPrinter = body.targetPrinter,
                  !.warned = UnknownPrinter(SelectedPrinter(body.targetPrinter)),
                  !.copies = Default(body.copies, 1),
                  !.ext = Ext(Default(body.mimeType, "image/png")),
                  !.hasAccess = Default(body.hasAccess, FALSE),
                  !.template = body.template,
                  !.selectedPrinter = SelectedPrinter(body.targetPrinter),
                  !.jobId = Uuid(nextJob + 1),
                  !.filePath = FilePath(Uuid(nextJob + 1),
                                        Ext(Default(body.mimeType, "image/png")))]]
  /\ UNCHANGED <<platform, osDefault, osPrinters, boot, printerName,
                 availablePrinters, printCount, advertised, files, refresh, observed>>

\* a variant of AfterWrite that goes on to print() whether or not the file
\* was written
AfterWriteIgnoringFailure(j, outcome) ==
  AfterPrint(EnterPrint([j EXCEPT !.paperSize = PaperSize(j.template),
                                  !.template = <<>>]))

\* the handler from the point where fs.writeFile settled to its next await:
\* the paper size and the call of print(), or the `catch` block
AfterWrite(j, outcome) ==
  IF outcome = "ok"
  THEN AfterPrint(EnterPrint([j EXCEPT !.paperSize = PaperSize(j.template),
                                       !.template = <<>>]))
  ELSE OnError(j, FsError(j.filePath))

\* fs.writeFile completes.  On success the handler runs on into print() up to
\* the first OS invocation; on failure (the file may have been created) it
\* runs the catch block and starts the cleanup.
WriteFileDone(s, outcome, created) ==
  /\ jobs[s].pc = "write"
  /\ outcome = "ok" => created
  /\ files' = IF created THEN files \cup {jobs[s].filePath} ELSE files
  /\ jobs' = [jobs EXCEPT ![s] = AfterWrite(@, outcome)]
  /\ UNCHANGED <<platform, osDefault, osPrinters, boot, printerName,
                 availablePrinters, printCount, advertised, nextJob, refresh, observed>>

\* the OS print invocation in flight completes; print() runs on to its next
\* invocation or settles, and then the handler counts, responds and starts
\* the cleanup
InvocationDone(s, outcome) ==
  /\ jobs[s].pc = "exec"
  /\ LET d == AfterInvocation(jobs[s], outcome)
     IN  /\ jobs' = [jobs EXCEPT ![s] = AfterPrint(d)]
         /\ printCount' = CountAfter(d)
  /\ UNCHANGED <<platform, osDefault, osPrinters, boot, printerName,
                 availablePrinters, advertised, files, nextJob, refresh, observed>>

\* a variant of CleanupTarget that removes the file that was printed
CleanupTargetPrinted(j) == IF j.fileToPrint # <<>> THEN j.fileToPrint ELSE j.filePath

\* the path the `finally` block removes: the job's own filePath
CleanupTarget(j) == j.filePath

\* a variant of Removed that removes nothing
RemovedNothing(fs, path, outcome) == fs

\* fs.rm(filePath, { force: true }) completes; its failure is swallowed
Removed(fs, path, outcome) == IF outcome = "ok" THEN fs \ {path} ELSE fs

\* a variant of AfterCleanup in which a failed removal is reported to the
\* client
AfterCleanupReporting(j, outcome) ==
  IF Settled(outcome) = "ok" THEN Return([j EXCEPT !.cleanup = "ok"])
  ELSE Return(Respond([j EXCEPT !.cleanup = "failed"], 500,
                      [error |-> FsError(j.filePath), success |-> FALSE]))

\* the inner try/catch of `finally`: a failure of fs.rm is swallowed and the
\* handler returns
AfterCleanup(j, outcome) == Return([j EXCEPT !.cleanup = Settled(outcome)])

\* `await fs.rm(...)` settles
CleanupDone(s, outcome) ==
  /\ jobs[s].pc = "rm"
  /\ files' = Removed(files, CleanupTarget(jobs[s]), outcome)
  /\ jobs' = [jobs EXCEPT ![s] = AfterCleanup(@, outcome)]
  /\ UNCHANGED <<platform, osDefault, osPrinters, boot, printerName,
                 availablePrinters, printCount, advertised, nextJob, refresh, observed>>

\* list.join(","): the names with "," between them
RECURSIVE Join(_)
Join(list) ==
  IF Len(list) <= 1 THEN list
  ELSE <<Head(list), ",">> \o Join(Tail(list))

\* a variant of Publish whose txt record leaves the printer list out
PublishDefaultOnly(default, printers) ==
  <<[printer |-> OrElse(default, "default"), printers |-> <<>>]>>

\* bonjour.publish({ ..., txt: { printer, printers } }): the advertised record
Publish(default, printers) ==
  <<[printer |-> OrElse(default, "default"), printers |-> Join(printers)]>>

\* startup: `await detectDefaultPrinter()` completes; getAvailablePrinters()
\* is started
DetectDefaultDone(outcome) ==
  /\ boot = "detectDefault"
  /\ LET detected == detectDefaultPrinter(outcome)
     IN  printerName' = IF detected # <<>> THEN detected[1] ELSE printerName
  /\ boot' = "listPrinters"
  /\ UNCHANGED <<platform, osDefault, osPrinters, availablePrinters, printCount,
                 advertised, files, nextJob, jobs, refresh, observed>>

\* startup: `await getAvailablePrinters()` completes; the service record is
\* published, the routes are registered and the server listens
ListPrintersDone(outcome) ==
  /\ boot = "listPrinters"
  /\ availablePrinters' = getAvailablePrinters(outcome)
  /\ advertised' = Publish(printerName, availablePrinters')
  /\ boot' = "listening"
  /\ UNCHANGED <<platform, osDefault, osPrinters, printerName, printCount,
                 files, nextJob, jobs, refresh, observed>>

\* a variant of AvailablePrintersPromise in which a failure of the query is
\* not caught
AvailablePrintersPromiseRejecting(outcome) ==
  IF outcome = "ok" THEN [state |-> "fulfilled", value |-> getAvailablePrinters(outcome)]
  ELSE [state |-> "rejected", value |-> <<>>]

\* the promise getAvailablePrinters() returns: it is never rejected
AvailablePrintersPromise(outcome) ==
  [state |-> "fulfilled", value |-> getAvailablePrinters(outcome)]

\* a refresh handler: r.before is availablePrinters when its query completed,
\* r.outcome how the query ended, r.seen the printers the OS had when the
\* query read them, r.stdout what the query made of them if it has read them
\* already, and r.overlaps the handlers whose query was running when this one
\* started
IdleRefresh ==
  [pc |-> "idle", resp |-> <<>>, outcome |-> "", before |-> <<>>, seen |-> <<>>,
   stdout |-> <<>>, overlaps |-> {}]

\* GET /printers/refresh arrives: getAvailablePrinters() is started
RefreshRequest(r) ==
  /\ RoutesRegistered
  /\ refresh[r].pc # "query"
  /\ refresh' = [q \in DOMAIN refresh |->
                   IF q = r
                   THEN [IdleRefresh EXCEPT
                           !.pc = "query",
                           !.overlaps = {o \in DOMAIN refresh \ {r} : refresh[o].pc = "query"}]
                   ELSE [refresh[q] EXCEPT !.overlaps = @ \ {r}]]
  /\ UNCHANGED <<platform, osDefault, osPrinters, boot, printerName,
                 availablePrinters, printCount, advertised, files, nextJob, jobs, observed>>

\* a variant of RefreshedPrinters that adds the printers found to the ones
\* already known
RefreshedPrintersMerged(promise) ==
  availablePrinters \o
    SelectSeq(promise.value,
              LAMBDA name : \A k \in DOMAIN availablePrinters : availablePrinters[k] # name)

\* the list the refresh handler leaves in availablePrinters
RefreshedPrinters(promise) ==
  IF promise.state = "fulfilled" THEN promise.value ELSE availablePrinters

\* the response of the refresh handler: its try block, or its catch block
RefreshResponse(promise) ==
  IF promise.state = "fulfilled"
  THEN [status |-> 200,
        body |-> [defaultPrinter |-> OrElse(printerName, "default"),
                  availablePrinters |-> promise.value, success |-> TRUE]]
  ELSE [status |-> 500,
        body |-> [error |-> <<"Failed to refresh printers">>, success |-> FALSE]]

\* the OS command of a running query reads the installed printers: this
\* happens at some moment between the start of the command and its completion
QueryReads(r) ==
  /\ refresh[r].pc = "query"
  /\ refresh[r].stdout = <<>>
  /\ refresh' = [refresh EXCEPT ![r].stdout = <<AvailablePrintersPromise("ok")>>,
                                ![r].seen = osPrinters]
  /\ UNCHANGED <<platform, osDefault, osPrinters, boot, printerName,
                 availablePrinters, printCount, advertised, files, nextJob, jobs, observed>>

\* `await getAvailablePrinters()` of the refresh handler completes: with what
\* the command has read, or with what it reads now if it had not read yet
RefreshDone(r, outcome) ==
  /\ refresh[r].pc = "query"
  /\ LET read == refresh[r].stdout # <<>>
         promise == IF read /\ outcome = "ok" THEN refresh[r].stdout[1]
                    ELSE AvailablePrintersPromise(outcome)
     IN  /\ availablePrinters' = RefreshedPrinters(promise)
         /\ refresh' = [refresh EXCEPT ![r] =
                          [pc |-> "done", resp |-> <<RefreshResponse(promise)>>,
                           outcome |-> outcome, before |-> availablePrinters,
                           seen |-> IF read THEN refresh[r].seen ELSE osPrinters,
                           stdout |-> <<>>, overlaps |-> refresh[r].overlaps]]
  /\ UNCHANGED <<platform, osDefault, osPrinters, boot, printerName, printCount,
                 advertised, files, nextJob, jobs, observed>>

\* a read-only route answers: the response is what the client observes
Observe(route, body) ==
  /\ RoutesRegistered
  /\ observed' = <<[route |-> route, body |-> body]>>
  /\ UNCHANGED <<platform, osDefault, osPrinters, boot, printerName,
                 availablePrinters, printCount, advertised, files, nextJob, jobs,
                 refresh>>

\* GET /printers
GetPrinters ==
  Observe("/printers", [defaultPrinter |-> OrElse(printerName, "default"),
                        availablePrinters |-> availablePrinters])

\* GET /info
GetInfo ==
  Observe("/info", [printerName |-> OrElse(printerName, "default"),
                    availablePrinters |-> availablePrinters,
                    platform |-> platform, version |-> "1.0.0"])

\* GET /health
GetHealth ==
  Observe("/health", [status |-> "OK", printer |-> OrElse(printerName, "default")])

\* the environment: printers are installed or removed, the default changes
OsPrinterLists == {<<>>, <<"P1">>, <<"P1", "P2">>}
OsDefaults == {"", "P1"}

OsChange ==
  /\ osDefault' \in OsDefaults
  /\ osPrinters' \in OsPrinterLists
  /\ <<osDefault', osPrinters'>> # <<osDefault, osPrinters>>
  /\ UNCHANGED <<platform, boot, printerName, availablePrinters, printCount,
                 advertised, files, nextJob, jobs, refresh, observed>>

\* the handler has returned and its locals are released: the slot is free
\* for the next request
Release(s) ==
  /\ jobs[s].pc = "done"
  /\ jobs' = [jobs EXCEPT ![s] = IdleJob]
  /\ UNCHANGED <<platform, osDefault, osPrinters, boot, printerName,
                 availablePrinters, printCount, advertised, files, nextJob, refresh, observed>>

-----------------------------------------------------------------------------
(* Spec: the server from its start, handling POST /print requests.           *)

Init ==
  /\ platform \in Platforms
  /\ osDefault = "P1"
  /\ osPrinters = <<"P1", "P2">>
  /\ boot = "detectDefault"
  /\ printerName = ""
  /\ availablePrinters = <<>>
  /\ printCount = 0
  /\ advertised = <<>>
  /\ files = {watermarkPath}
  /\ nextJob = 0
  /\ jobs = [s \in Slots |-> IdleJob]
  /\ refresh = [r \in RefreshSlots |-> IdleRefresh]
  /\ observed = <<>>

Next ==
  \/ \E outcome \in Outcomes : DetectDefaultDone(outcome)
  \/ \E outcome \in Outcomes : ListPrintersDone(outcome)
  \/ \E s \in Slots, body \in Bodies : PrintRequest(s, body)
  \/ \E s \in Slots, outcome \in {"ok", "error"}, created \in BOOLEAN :
       WriteFileDone(s, outcome, created)
  \/ \E s \in Slots, outcome \in Outcomes : InvocationDone(s, outcome)
  \/ \E s \in Slots, outcome \in {"ok", "error"} : CleanupDone(s, outcome)
  \/ \E s \in Slots : Release(s)

Spec == Init /\ [][Next]_vars

-----------------------------------------------------------------------------
(* DispatchSpec: print() called with any PrintOptions, on either platform.   *)

\* the files a caller hands to print()
DirectPaths ==
  {PathJoin(tempDir, <<"a", ".", e>>) : e \in {"png", "PNG", "jpeg", "Gif", "pdf"}}
  \cup {PathJoin(tempDir, <<"a", ".", "png", ".", "bak">>), PathJoin(tempDir, <<"png">>)}

DirectCalls ==
  {[IdleJob EXCEPT !.pc = "call", !.caller = "direct", !.filePath = f,
                   !.copies = c, !.selectedPrinter = p, !.hasAccess = a,
                   !.paperSize = z] :
     f \in DirectPaths, c \in -1 .. MaxCopies, p \in PrinterNames \ {"P2"},
     a \in BOOLEAN, z \in Opt({[widthInch |-> 4, heightInch |-> 6]})}

\* print(options) is called and runs to its first await
CallPrint(s) ==
  /\ jobs[s].pc = "call"
  /\ jobs' = [jobs EXCEPT ![s] = EnterPrint(@)]
  /\ UNCHANGED <<platform, osDefault, osPrinters, boot, printerName,
                 availablePrinters, printCount, advertised, files, nextJob, refresh, observed>>

DispatchInit ==
  /\ platform \in Platforms
  /\ osDefault = "P1"
  /\ osPrinters = <<"P1", "P2">>
  /\ boot = "detectDefault"
  /\ printerName = ""
  /\ availablePrinters = <<>>
  /\ printCount = 0
  /\ advertised = <<>>
  /\ files = {watermarkPath} \cup DirectPaths
  /\ nextJob = 0
  /\ jobs \in [Slots -> DirectCalls]
  /\ refresh = [r \in RefreshSlots |-> IdleRefresh]
  /\ observed = <<>>

DispatchNext ==
  \/ \E s \in Slots : CallPrint(s)
  \/ \E s \in Slots, outcome \in Outcomes : InvocationDone(s, outcome)

DispatchSpec == DispatchInit /\ [][DispatchNext]_vars

-----------------------------------------------------------------------------
(* InventorySpec: startup detection and GET /printers/refresh, while the     *)
(* printers installed on the host change.                                    *)

InventoryInit ==
  /\ platform \in Platforms
  /\ osDefault \in OsDefaults
  /\ osPrinters \in OsPrinterLists
  /\ boot = "detectDefault"
  /\ printerName = ""
  /\ availablePrinters = <<>>
  /\ printCount = 0
  /\ advertised = <<>>
  /\ files = {watermarkPath}
  /\ nextJob = 0
  /\ jobs = [s \in Slots |-> IdleJob]
  /\ refresh = [r \in RefreshSlots |-> IdleRefresh]
  /\ observed = <<>>

InventoryNext ==
  \/ \E outcome \in Outcomes : DetectDefaultDone(outcome)
  \/ \E outcome \in Outcomes : ListPrintersDone(outcome)
  \/ \E r \in RefreshSlots : RefreshRequest(r)
  \/ \E r \in RefreshSlots : QueryReads(r)
  \/ \E r \in RefreshSlots, outcome \in Outcomes : RefreshDone(r, outcome)
  \/ GetPrinters
  \/ OsChange

InventorySpec == InventoryInit /\ [][InventoryNext]_vars

-----------------------------------------------------------------------------
(* SnapshotSpec: the server from its start, with refreshes, the read-only    *)
(* routes and /print handlers interleaved.                                   *)

\* requests that leave every optional field but targetPrinter out
SnapshotBodies ==
  {b \in Bodies : /\ ~MissingData(b.data)
                  /\ b.copies = <<>> /\ b.mimeType = <<>>
                  /\ b.hasAccess = <<>> /\ b.template = <<>>}

\* one refresh handler at a time runs here
SnapshotRefreshSlots == {r \in RefreshSlots : \A q \in RefreshSlots : r <= q}

SnapshotNext ==
  \/ \E outcome \in Outcomes : DetectDefaultDone(outcome)
  \/ \E outcome \in Outcomes : ListPrintersDone(outcome)
  \/ \E r \in SnapshotRefreshSlots : RefreshRequest(r)
  \/ \E r \in SnapshotRefreshSlots, outcome \in Outcomes : RefreshDone(r, outcome)
  \/ GetPrinters
  \/ GetInfo
  \/ GetHealth
  \/ \E s \in Slots, body \in SnapshotBodies : PrintRequest(s, body)
  \/ \E s \in Slots, outcome \in {"ok", "error"}, created \in BOOLEAN :
       WriteFileDone(s, outcome, created)
  \/ \E s \in Slots, outcome \in Outcomes : InvocationDone(s, outcome)
  \/ \E s \in Slots, outcome \in {"ok", "error"} : CleanupDone(s, outcome)
  \/ \E s \in Slots : Release(s)

SnapshotSpec == Init /\ [][SnapshotNext]_vars

-----------------------------------------------------------------------------
(* ConcSpec: the server from its start, with two /print handlers in flight   *)
(* at the same time.                                                         *)

ConcSlots == {1, 2}

\* requests that give only `data`
ConcBodies ==
  {b \in Bodies : /\ ~MissingData(b.data)
                  /\ b.copies = <<>> /\ b.targetPrinter = <<>>
                  /\ b.hasAccess = <<>> /\ b.template = <<>>
                  /\ b.mimeType = <<>>}

ConcInit ==
  /\ platform \in Platforms
  /\ osDefault = "P1"
  /\ osPrinters = <<"P1", "P2">>
  /\ boot = "detectDefault"
  /\ printerName = ""
  /\ availablePrinters = <<>>
  /\ printCount = 0
  /\ advertised = <<>>
  /\ files = {watermarkPath}
  /\ nextJob = 0
  /\ jobs = [s \in ConcSlots |-> IdleJob]
  /\ refresh = [r \in RefreshSlots |-> IdleRefresh]
  /\ observed = <<>>

ConcNext ==
  \/ \E outcome \in Outcomes : DetectDefaultDone(outcome)
  \/ \E outcome \in Outcomes : ListPrintersDone(outcome)
  \/ \E s \in ConcSlots, body \in ConcBodies : PrintRequest(s, body)
  \/ \E s \in ConcSlots, outcome \in {"ok", "error"}, created \in BOOLEAN :
       WriteFileDone(s, outcome, created)
  \/ \E s \in ConcSlots, outcome \in Outcomes : InvocationDone(s, outcome)
  \/ \E s \in ConcSlots, outcome \in {"ok", "error"} : CleanupDone(s, outcome)
  \/ \E s \in ConcSlots : Release(s)

ConcSpec == ConcInit /\ [][ConcNext]_vars

-----------------------------------------------------------------------------
(* LiveSpec: the server handling POST /print requests, every awaited file    *)
(* operation and OS command of a handler eventually completing (the commands *)
(* run under a timeout, so they complete or time out).                       *)

LiveBodies ==
  [copies : Opt({0, MaxCopies}), mimeType : {<<>>},
   data : Opt({[t |-> "string", v |-> "AAAA"], [t |-> "string", v |-> ""]}),
   targetPrinter : {<<>>}, hasAccess : Opt({TRUE}), template : {<<>>}]

LiveNext ==
  \/ \E outcome \in Outcomes : DetectDefaultDone(outcome)
  \/ \E outcome \in Outcomes : ListPrintersDone(outcome)
  \/ \E s \in Slots, body \in LiveBodies : PrintRequest(s, body)
  \/ \E s \in Slots, outcome \in {"ok", "error"}, created \in BOOLEAN :
       WriteFileDone(s, outcome, created)
  \/ \E s \in Slots, outcome \in Outcomes : InvocationDone(s, outcome)
  \/ \E s \in Slots, outcome \in {"ok", "error"} : CleanupDone(s, outcome)
  \/ \E s \in Slots : Release(s)

\* what a handler awaits settles: fs.writeFile, the OS command, fs.rm
Settles(s) ==
  \/ \E outcome \in {"ok", "error"}, created \in BOOLEAN :
       WriteFileDone(s, outcome, created)
  \/ \E outcome \in Outcomes : InvocationDone(s, outcome)
  \/ \E outcome \in {"ok", "error"} : CleanupDone(s, outcome)

LiveSpec == Init /\ [][LiveNext]_vars /\ \A s \in Slots : WF_vars(Settles(s))

-----------------------------------------------------------------------------
(* PageSizeSpec: two calls of print() with the same options but for          *)
(* paperSize, which the first call leaves out.                               *)

PairCalls ==
  {[IdleJob EXCEPT !.pc = "call", !.caller = "direct", !.filePath = f,
                   !.copies = c, !.selectedPrinter = p, !.hasAccess = a] :
     f \in {PathJoin(tempDir, <<"a", ".", e>>) : e \in {"png", "pdf"}},
     c \in 0 .. MaxCopies, p \in {"", "P1", "O'Neil"}, a \in BOOLEAN}

PageSizeInit ==
  /\ platform \in Platforms
  /\ osDefault = "P1"
  /\ osPrinters = <<"P1", "P2">>
  /\ boot = "detectDefault"
  /\ printerName = ""
  /\ availablePrinters = <<>>
  /\ printCount = 0
  /\ advertised = <<>>
  /\ files = {watermarkPath} \cup DirectPaths
  /\ nextJob = 0
  /\ \E d \in PairCalls :
       jobs = [s \in ConcSlots |->
                 IF s = 1 THEN d
                 ELSE [d EXCEPT !.paperSize = <<[widthInch |-> 4, heightInch |-> 6]>>]]
  /\ refresh = [r \in RefreshSlots |-> IdleRefresh]
  /\ observed = <<>>

PageSizeNext ==
  \/ \E s \in ConcSlots : CallPrint(s)
  \/ \E s \in ConcSlots, outcome \in Outcomes : InvocationDone(s, outcome)

PageSizeSpec == PageSizeInit /\ [][PageSizeNext]_vars



-----------------------------------------------------------------------------
(* Properties.  They read the history a job record keeps: j.log, j.resp and  *)
(* j.cleanup.                                                                *)

\* the OS invocations of method m a job has issued, those that succeeded and
\* whether one failed
Count(j, m) == Cardinality({k \in DOMAIN j.log : j.log[k].method = m})

OkCount(j, m) ==
  Cardinality({k \in DOMAIN j.log : j.log[k].method = m /\ j.log[k].result = "ok"})

Attempted(j, m) == Count(j, m) > 0

Failed(j, m) ==
  \E k \in DOMAIN j.log : j.log[k].method = m /\ j.log[k].result = "failed"

\* the file name ends in .png, .jpg, .jpeg, .bmp or .gif, in any letter case
HasImageExtension(path) ==
  /\ Len(path) >= 2
  /\ path[Len(path) - 1] = "."
  /\ path[Len(path)] \in {"png", "PNG", "jpg", "JPG", "jpeg", "bmp", "gif", "Gif"}

\* the copy count in effect: the requested one, or 1 in restricted mode
EffectiveCopies(j) == IF j.hasAccess THEN j.copies ELSE 1

\* method m ran to its end without a failure (methods 2 and 3 are entered
\* when the method before them failed)
Succeeded(j, m) ==
  CASE m = 1 -> OkCount(j, 1) >= 1
    [] m = 2 -> Failed(j, 1) /\ ~Failed(j, 2) /\ OkCount(j, 2) >= EffectiveCopies(j)
    [] OTHER -> /\ Failed(j, 2) /\ HasImageExtension(j.fileToPrint)
                /\ ~Failed(j, 3) /\ OkCount(j, 3) >= EffectiveCopies(j)

Validated(j) == j.jobId # ""

PrintSettled(j) == j.pc \in {"returned", "thrown"}

\* C1, as stated: once the handler of a validated job has finished, the job's
\* artifact no longer exists.
C1_ArtifactGoneWhenDone ==
  \A s \in Slots :
    (jobs[s].pc = "done" /\ Validated(jobs[s])) => jobs[s].filePath \notin files

\* C1, amended: once the handler of a validated job has finished, whatever
\* the outcome, the removal of the artifact has been attempted, and the
\* artifact no longer exists unless that removal itself failed.
C1_ArtifactGoneUnlessRemovalFailed ==
  \A s \in Slots :
    (jobs[s].pc = "done" /\ Validated(jobs[s])) =>
      /\ jobs[s].cleanup \in {"ok", "failed"}
      /\ jobs[s].cleanup = "ok" => jobs[s].filePath \notin files

C1_Witness ==
  \E s \in Slots :
    /\ jobs[s].pc = "done" /\ Validated(jobs[s])
    /\ jobs[s].cleanup = "ok" /\ jobs[s].filePath \notin files
    /\ jobs[s].log # <<>> /\ jobs[s].resp[1].status = 500

C3_RestrictedOneInvocation ==
  \A s \in Slots :
    (~jobs[s].hasAccess /\ PrintSettled(jobs[s])) =>
      /\ Len(jobs[s].log) = 1
      /\ \A k \in DOMAIN jobs[s].log : jobs[s].log[k].file = watermarkPath

\* C3, amended: in restricted mode, on either platform and for any copies and
\* file, every OS print invocation carries the placeholder and never the
\* job's artifact, with a copy count of 1 where one is carried; exactly one
\* invocation occurs per attempted method (one on the non-Windows path, up to
\* three on the Windows chain), and at most one invocation succeeds.
C3_RestrictedPlaceholderOncePerMethod ==
  \A s \in Slots :
    LET j == jobs[s]
    IN  ~j.hasAccess =>
          /\ \A k \in DOMAIN j.log :
               /\ j.log[k].file = watermarkPath
               /\ j.log[k].file # j.filePath
               /\ j.log[k].copies \in {<<>>, << <<"1">> >>}
          /\ \A m \in 0 .. 3 : Count(j, m) <= 1
          /\ platform # "win32" => Len(j.log) <= 1
          /\ PrintSettled(j) => Len(j.log) >= 1
          /\ Cardinality({k \in DOMAIN j.log : j.log[k].result = "ok"}) <= 1

C3_Witness ==
  \E s \in Slots :
    /\ platform = "win32" /\ ~jobs[s].hasAccess /\ jobs[s].copies = MaxCopies
    /\ jobs[s].pc = "returned"
    /\ Len(jobs[s].log) = 3 /\ jobs[s].log[3].result = "ok"

\* C4: on the Windows path, when method 1 succeeds methods 2 and 3 are never
\* attempted, and when method 2 succeeds method 3 is never attempted.
C4_NoFallbackAfterSuccess ==
  \A s \in Slots :
    LET j == jobs[s]
    IN  (platform = "win32" /\ j.pc # "call") =>
          /\ Succeeded(j, 1) => ~Attempted(j, 2) /\ ~Attempted(j, 3)
          /\ Succeeded(j, 2) => ~Attempted(j, 3)

C4_Witness ==
  \E s \in Slots :
    /\ platform = "win32" /\ jobs[s].pc = "returned"
    /\ Succeeded(jobs[s], 1) /\ Len(jobs[s].log) = 1

\* C5: on the Windows path, when the file's extension is none of png, jpg,
\* jpeg, bmp, gif (in any letter case), method 3 is not invoked, and once
\* methods 1 and 2 have failed the dispatch has failed with AllMethodsFailed.
C5_NonImageSkipsMethod3 ==
  \A s \in Slots :
    LET j == jobs[s]
    IN  (platform = "win32" /\ j.pc # "call" /\ ~HasImageExtension(j.fileToPrint)) =>
          /\ ~Attempted(j, 3)
          /\ (Failed(j, 1) /\ Failed(j, 2)) =>
               (j.pc = "thrown" /\ j.err = <<"All Windows printing methods failed">>)

C5_Witness ==
  \E s \in Slots :
    /\ platform = "win32" /\ jobs[s].pc = "thrown"
    /\ jobs[s].fileToPrint = <<"tmp", "/", "a", ".", "pdf">>
    /\ Failed(jobs[s], 1) /\ Failed(jobs[s], 2)

\* C6: on the Windows path the dispatch succeeds exactly when one attempted
\* method ran to its end without a failure; a failure inside a method only
\* moves the chain to the next method; the only error raised is
\* AllMethodsFailed, exactly when every applicable method has failed.
C6_SuccessIffAMethodSucceeded ==
  \A s \in Slots :
    LET j == jobs[s]
    IN  (platform = "win32" /\ j.pc # "call") =>
          /\ j.pc = "returned" <=> \E m \in 1 .. 3 : Succeeded(j, m)
          /\ j.pc = "thrown" <=>
               /\ Failed(j, 1) /\ Failed(j, 2)
               /\ HasImageExtension(j.fileToPrint) => Failed(j, 3)
          /\ j.pc = "thrown" => j.err = <<"All Windows printing methods failed">>
          /\ \A k \in 1 .. Len(j.log) - 1 :
               j.log[k].result = "failed" => j.log[k + 1].method = j.log[k].method + 1

C6_Witness ==
  \E s \in Slots :
    /\ platform = "win32" /\ jobs[s].pc = "returned"
    /\ Failed(jobs[s], 1) /\ Failed(jobs[s], 2)
    /\ OkCount(jobs[s], 3) = MaxCopies

\* C7: within one job on the Windows path the methods are attempted in the
\* order 1, 2, 3, a method starts only after the one before it has failed, a
\* copy is invoked only after the copy before it has succeeded, and at most
\* one OS print invocation of the job is in flight, the last one issued.
C7_StrictlySequential ==
  \A s \in Slots :
    LET j == jobs[s]
    IN  platform = "win32" =>
          /\ j.log # <<>> => j.log[1].method = 1
          /\ \A k \in 1 .. Len(j.log) - 1 :
               /\ j.log[k].result # "running"
               /\ \/ /\ j.log[k + 1].method = j.log[k].method
                     /\ j.log[k].method \in {2, 3}
                     /\ j.log[k].result = "ok"
                  \/ /\ j.log[k + 1].method = j.log[k].method + 1
                     /\ j.log[k].result = "failed"
          /\ j.pc = "exec" <=> (j.log # <<>> /\ j.log[Len(j.log)].result = "running")

C7_Witness ==
  \E s \in Slots :
    /\ platform = "win32" /\ jobs[s].pc = "exec"
    /\ Len(jobs[s].log) = 5
    /\ jobs[s].log[3].method = 2 /\ jobs[s].log[5].method = 3

\* C8, as stated: every Windows method realises N copies by N OS invocations
\* and none passes the copy count to an invocation.
C8_EveryMethodLoopsPerCopy ==
  \A s \in Slots :
    LET j == jobs[s]
    IN  (platform = "win32" /\ j.pc # "call" /\ EffectiveCopies(j) >= 1) =>
          /\ \A k \in DOMAIN j.log : j.log[k].copies = <<>>
          /\ \A m \in 1 .. 3 : Succeeded(j, m) => Count(j, m) = EffectiveCopies(j)

\* C8, amended: on the Windows path methods 2 and 3 realise N copies by N
\* separate OS invocations, one per copy, none carrying a copy count (none at
\* all when N is not positive); method 1 issues a single OS invocation whose
\* script carries the copy count N.
C8_CopiesPerMethod ==
  \A s \in Slots :
    LET j == jobs[s]
        n == IF EffectiveCopies(j) > 0 THEN EffectiveCopies(j) ELSE 0
    IN  (platform = "win32" /\ j.pc # "call") =>
          /\ \A k \in DOMAIN j.log :
               IF j.log[k].method = 1
               THEN j.log[k].copies = <<StringOf(EffectiveCopies(j))>>
               ELSE j.log[k].copies = <<>>
          /\ Count(j, 1) = 1
          /\ \A m \in {2, 3} :
               /\ Count(j, m) <= n
               /\ Succeeded(j, m) => Count(j, m) = n

C8_Witness ==
  \E s \in Slots :
    /\ platform = "win32" /\ jobs[s].pc = "returned"
    /\ EffectiveCopies(jobs[s]) = MaxCopies
    /\ Count(jobs[s], 1) = 1 /\ Count(jobs[s], 2) = MaxCopies

\* C9: on the non-Windows path every dispatch issues exactly one lp
\* invocation, with the effective copy count as its single -n argument and
\* -d <printer> exactly when the printer name is non-empty after trimming;
\* the dispatch succeeds exactly when that invocation succeeds.
C9_SingleLpInvocation ==
  \A s \in Slots :
    LET j == jobs[s]
    IN  (platform # "win32" /\ j.pc \in {"exec", "returned", "thrown"}) =>
          /\ Len(j.log) = 1
          /\ j.log[1].cmd = "lp"
          /\ j.log[1].file = FileToPrint(j.filePath, j.hasAccess)
          /\ j.log[1].copies = <<StringOf(EffectiveCopies(j))>>
          /\ Cardinality({k \in DOMAIN j.log[1].args : j.log[1].args[k] = "-n"}) = 1
          /\ IF j.selectedPrinter \in {"", "  "}
             THEN j.log[1].printer = <<>> /\ j.log[1].args = <<"-n">>
             ELSE j.log[1].printer = <<j.selectedPrinter>> /\ j.log[1].args = <<"-d", "-n">>
          /\ j.pc = "returned" <=> j.log[1].result = "ok"
          /\ j.pc = "thrown" <=> j.log[1].result = "failed"

C9_Witness ==
  \E s \in Slots :
    /\ platform # "win32" /\ jobs[s].pc = "returned"
    /\ jobs[s].hasAccess /\ jobs[s].copies = MaxCopies
    /\ jobs[s].log[1].printer = <<"P1">>

\* C10: a refresh whose OS enumeration failed answers 500 "Failed to refresh
\* printers" with success false and leaves availablePrinters as it was.
C10_FailedRefreshKeepsInventory ==
  [][\A r \in RefreshSlots :
       (refresh[r].pc = "query" /\ refresh'[r].pc = "done" /\ refresh'[r].outcome # "ok") =>
         /\ availablePrinters' = availablePrinters
         /\ refresh'[r].resp =
              <<[status |-> 500,
                 body |-> [error |-> <<"Failed to refresh printers">>, success |-> FALSE]]>>]_vars

\* the `data` of a request is missing, empty or not a string
UnusableData(data) ==
  \/ data = <<>>
  \/ data[1] \in {[t |-> "string", v |-> ""], [t |-> "number", v |-> "7"],
                  [t |-> "object", v |-> "null"]}

\* the handler of slot s starts in this step
Arrives(s) == jobs[s].pc = "idle" /\ jobs'[s].pc # "idle"

\* C11: a POST /print request whose data is missing, empty or not a string is
\* answered 400 "Missing base64 data" at once: no job identifier is
\* allocated, no artifact is written, no OS print invocation occurs, and the
\* print counter and the inventory are unchanged; a request with usable data
\* is not answered 400.
C11_InvalidRequestRejectedAtOnce ==
  [][\A s \in Slots :
       Arrives(s) =>
         IF UnusableData(jobs'[s].data)
         THEN /\ jobs'[s].pc = "done"
              /\ jobs'[s].resp = <<[status |-> 400,
                                    body |-> [error |-> <<"Missing base64 data">>]]>>
              /\ jobs'[s].jobId = "" /\ jobs'[s].filePath = <<>>
              /\ jobs'[s].log = <<>>
              /\ nextJob' = nextJob /\ files' = files
              /\ printCount' = printCount
              /\ availablePrinters' = availablePrinters /\ printerName' = printerName
         ELSE /\ jobs'[s].pc = "write" /\ jobs'[s].resp = <<>>
              /\ jobs'[s].jobId # ""]_vars

C11_Witness ==
  \E s \in Slots :
    /\ jobs[s].pc = "done"
    /\ jobs[s].data = <<[t |-> "number", v |-> "7"]>>
    /\ jobs[s].resp # <<>> /\ jobs[s].resp[1].status = 400
    /\ jobs[s].log = <<>> /\ nextJob = 0 /\ files = {watermarkPath}

\* the responses a /print handler has sent
Responses(s) == {jobs[s].resp[k] : k \in DOMAIN jobs[s].resp}

Has(body, field) == field \in DOMAIN body

\* C12, as stated: every response to POST /print carries a `success` boolean
\* and every failure response also an `error` string and a `troubleshooting`
\* object.
C12_EveryResponseCarriesSuccess ==
  \A s \in Slots : \A r \in Responses(s) :
    /\ Has(r.body, "success")
    /\ r.status # 200 => Has(r.body, "error") /\ Has(r.body, "troubleshooting")

\* C12, amended: the 200 response carries success true and no error; the 500
\* response (artifact write or dispatch failed) carries success false, a
\* non-empty error message and a troubleshooting object; the 400 response
\* (validation failure) carries the error message only, without `success`
\* and without `troubleshooting`.
C12_ResponseShapes ==
  \A s \in Slots : \A r \in Responses(s) :
    CASE r.status = 200 ->
           /\ Has(r.body, "success") /\ r.body.success = TRUE
           /\ ~Has(r.body, "error")
      [] r.status = 500 ->
           /\ Has(r.body, "success") /\ r.body.success = FALSE
           /\ Has(r.body, "error") /\ r.body.error # <<>>
           /\ Has(r.body, "troubleshooting")
      [] r.status = 400 ->
           /\ DOMAIN r.body = {"error"}
           /\ r.body.error = <<"Missing base64 data">>
      [] OTHER -> FALSE

C12_Witness ==
  \E s \in Slots :
    /\ jobs[s].pc = "done" /\ jobs[s].log = <<>>
    /\ jobs[s].resp # <<>> /\ jobs[s].resp[1].status = 500
    /\ Has(jobs[s].resp[1].body, "troubleshooting")

\* the effective printer of a job: the requested one when there is one and it
\* is not empty, otherwise the process-wide default
Resolved(j) ==
  IF j.targetPrinter # <<>> /\ j.targetPrinter[1] # "" THEN j.targetPrinter[1]
  ELSE printerName

\* the printer an OS invocation of the job carries is the one resolved for it
\* (method 2 names no printer; lp and method 3 name none when it is blank)
CarriesResolved(j, inv) ==
  CASE inv.method = 1 ->
         inv.printer = <<IF Resolved(j) = "O'Neil" THEN "O''Neil" ELSE Resolved(j)>>
    [] inv.method = 2 -> inv.printer = <<>>
    [] OTHER ->
         inv.printer = IF Resolved(j) \in {"", "  "} THEN <<>> ELSE <<Resolved(j)>>

\* the responses of the handler that report a printer
Reports(s) == {r \in Responses(s) : r.status \in {200, 500}}

\* C13, as stated: the resolved name is the one reported in the response.
C13_ResolvedNameReported ==
  \A s \in Slots :
    Validated(jobs[s]) => \A r \in Reports(s) : r.body.printer = Resolved(jobs[s])

\* C13, amended: the effective printer of a job is the requested
\* targetPrinter when it is non-empty and otherwise the process-wide default
\* printer, whether or not the name is among the available printers; that
\* name is the one handed to the dispatcher, and the response reports it,
\* except that an empty effective printer is reported as "default".
C13_EffectivePrinter ==
  \A s \in Slots :
    LET j == jobs[s]
    IN  Validated(j) =>
          /\ j.selectedPrinter = Resolved(j)
          /\ \A k \in DOMAIN j.log : CarriesResolved(j, j.log[k])
          /\ \A r \in Reports(s) :
               r.body.printer = IF Resolved(j) = "" THEN "default" ELSE Resolved(j)

C13_Witness ==
  \E s \in Slots :
    /\ jobs[s].pc = "done" /\ jobs[s].targetPrinter = <<"O'Neil">>
    /\ printerName = "P1" /\ availablePrinters = <<"P1", "P2">>
    /\ jobs[s].log # <<>> /\ jobs[s].log[1].method = 0
    /\ jobs[s].log[1].printer = <<"O'Neil">>
    /\ jobs[s].resp[1].status = 200 /\ jobs[s].resp[1].body.printer = "O'Neil"

\* the effective printer of the job is named and is not in the snapshot
NotInSnapshot(j) ==
  /\ Resolved(j) \notin {"", "default"}
  /\ \A k \in DOMAIN availablePrinters : availablePrinters[k] # Resolved(j)

C15_UnavailablePrinterFallsBack ==
  \A s \in Slots :
    LET j == jobs[s]
    IN  (Validated(j) /\ NotInSnapshot(j) /\ Resolved(j) # printerName) =>
          \A k \in DOMAIN j.log :
            j.log[k].printer \in {<<>>, <<printerName>>}

\* C16: the inventory queries never raise.  For every outcome of the OS
\* command detectDefaultPrinter gives the OS default or absent, and absent on
\* every failure, as when no default is configured; getAvailablePrinters
\* gives a list, empty on every failure, as when no printer is installed; a
\* refresh whose query failed is answered like one that found no printer.
C16_InventoryQueriesNeverRaise ==
  /\ \A o \in Outcomes :
       /\ detectDefaultPrinter(o) \in {<<>>, <<osDefault>>}
       /\ o # "ok" => detectDefaultPrinter(o) = <<>>
       /\ osDefault = "" => detectDefaultPrinter(o) = <<>>
       /\ AvailablePrintersPromise(o).state = "fulfilled"
       /\ o # "ok" => AvailablePrintersPromise(o).value = <<>>
       /\ osPrinters = <<>> => AvailablePrintersPromise(o).value = <<>>
       /\ o = "ok" => AvailablePrintersPromise(o).value = osPrinters
  /\ \A r \in RefreshSlots :
       (refresh[r].pc = "done" /\ refresh[r].outcome # "ok") =>
         refresh[r].resp =
           <<[status |-> 200,
              body |-> [defaultPrinter |-> IF printerName = "" THEN "default" ELSE printerName,
                        availablePrinters |-> <<>>, success |-> TRUE]]>>

C16_Witness ==
  \E r \in RefreshSlots :
    /\ refresh[r].pc = "done" /\ refresh[r].outcome = "timeout"
    /\ refresh[r].before = <<"P1", "P2">> /\ availablePrinters = <<>>
    /\ osPrinters = <<"P1", "P2">>
    /\ refresh[r].resp[1].status = 200

\* the refresh handler of slot r completes in this step
Completes(r) == refresh[r].pc = "query" /\ refresh'[r].pc = "done"

\* C17: when a refresh completes successfully availablePrinters becomes
\* exactly the list the OS reports (a printer no longer reported is gone),
\* the refresh response carries that list with success true, every answer of
\* GET /printers carries availablePrinters as it is then, and
\* availablePrinters changes only when a refresh or the startup enumeration
\* completes.
C17_RefreshReplacesInventory ==
  [][/\ \A r \in RefreshSlots :
          (Completes(r) /\ refresh'[r].outcome = "ok") =>
            /\ availablePrinters' = refresh'[r].seen
            /\ refresh'[r].resp[1].status = 200
            /\ refresh'[r].resp[1].body.availablePrinters = refresh'[r].seen
            /\ refresh'[r].resp[1].body.success = TRUE
     /\ (observed' # observed /\ observed'[1].route = "/printers") =>
          /\ observed'[1].body.availablePrinters = availablePrinters
          /\ availablePrinters' = availablePrinters
     /\ availablePrinters' # availablePrinters =>
          (boot = "listPrinters" \/ \E r \in RefreshSlots : Completes(r))]_vars

C17_Witness ==
  \E r \in RefreshSlots :
    /\ refresh[r].pc = "done" /\ refresh[r].outcome = "ok"
    /\ refresh[r].before = <<"P1", "P2">>
    /\ osPrinters = <<"P1">> /\ availablePrinters = <<"P1">>
    /\ observed # <<>> /\ observed[1].route = "/printers"
    /\ observed[1].body.availablePrinters = <<"P1">>

\* C18: the default printer is refreshed on explicit refresh: after a
\* refresh whose OS query succeeded, the process-wide default printer is the
\* OS default printer of that moment.
C18_RefreshRedetectsDefault ==
  [][\A r \in RefreshSlots :
       (Completes(r) /\ refresh'[r].outcome = "ok") => printerName' = osDefault]_vars

\* the inventory snapshot as a read-only route reports it
ReportedDefault == IF printerName = "" THEN "default" ELSE printerName

\* the body of a read-only response shows the snapshot of the current state
ShowsSnapshot(r) ==
  CASE r.route = "/printers" ->
         /\ r.body.defaultPrinter = ReportedDefault
         /\ r.body.availablePrinters = availablePrinters
    [] r.route = "/info" ->
         /\ r.body.printerName = ReportedDefault
         /\ r.body.availablePrinters = availablePrinters
    [] OTHER -> r.body.printer = ReportedDefault

\* C19: under every interleaving of refreshes with the /print, /printers,
\* /info and /health handlers, a handler reads the snapshot in one step of a
\* state whose snapshot is complete: no handler runs before the startup has
\* written both parts, a read-only response shows both parts as they are in
\* that state, a /print handler resolves its printer and its warning from
\* them, and the snapshot is written only by the startup and by a completing
\* refresh, which replaces the list in one step.
C19_SnapshotReadWhole ==
  [][/\ boot # "listening" =>
          /\ observed = <<>> /\ observed' = <<>>
          /\ \A s \in Slots : jobs'[s].pc = "idle"
          /\ \A r \in RefreshSlots : refresh'[r].pc = "idle"
     /\ observed' # observed =>
          /\ ShowsSnapshot(observed'[1])
          /\ printerName' = printerName /\ availablePrinters' = availablePrinters
     /\ \A s \in Slots :
          (Arrives(s) /\ jobs'[s].pc = "write") =>
            /\ jobs'[s].selectedPrinter = Resolved(jobs'[s])
            /\ jobs'[s].warned <=> NotInSnapshot(jobs'[s])
            /\ printerName' = printerName /\ availablePrinters' = availablePrinters
     /\ printerName' # printerName => boot = "detectDefault"
     /\ availablePrinters' # availablePrinters =>
          \/ boot = "listPrinters"
          \/ \E r \in RefreshSlots :
               Completes(r) /\ availablePrinters' \in {<<>>, osPrinters}]_vars

C19_Witness ==
  \E s \in Slots :
    /\ refresh[1].pc = "done" /\ refresh[1].before = <<"P1", "P2">>
    /\ availablePrinters = <<>>
    /\ observed # <<>> /\ observed[1].route = "/info"
    /\ observed[1].body.availablePrinters = <<>>
    /\ jobs[s].pc = "exec" /\ jobs[s].selectedPrinter = "P1" /\ jobs[s].warned

\* the handler of slot s holds a job whose response or cleanup is pending
InFlight(s) == Validated(jobs[s]) /\ jobs[s].pc \in {"write", "exec", "rm"}

\* C20: two jobs in flight at the same time have distinct artifact paths,
\* and a step of one job (its write, its cleanup) leaves the artifact of
\* every other job in flight as it was: neither created nor removed.
C20_ArtifactsNeverCollide ==
  [][/\ \A s, t \in ConcSlots :
          (s # t /\ InFlight(s) /\ InFlight(t)) =>
            jobs[s].filePath # jobs[t].filePath
     /\ \A t \in ConcSlots :
          (InFlight(t) /\ jobs'[t] = jobs[t]) =>
            (jobs[t].filePath \in files' <=> jobs[t].filePath \in files)]_vars

C20_Witness ==
  /\ jobs[1].pc = "exec" /\ jobs[1].filePath \in files
  /\ jobs[2].pc = "done" /\ Validated(jobs[2])
  /\ jobs[2].cleanup = "ok" /\ jobs[2].filePath \notin files
  /\ jobs[1].jobId = "u1" /\ jobs[2].jobId = "u2"

\* C21: a failure of the artifact removal is swallowed: when the removal of
\* a job settles, failed or not, the handler returns and the responses of the
\* job, status and body, stay as they were; a job answered 200 whose removal
\* failed stays answered 200 and nothing more.
C21_CleanupFailureSwallowed ==
  [][\A s \in Slots :
       (jobs[s].pc = "rm" /\ jobs'[s] # jobs[s]) =>
         /\ jobs'[s].pc = "done"
         /\ jobs'[s].cleanup \in {"ok", "failed"}
         /\ jobs'[s].resp = jobs[s].resp
         /\ jobs'[s].err = jobs[s].err
         /\ printCount' = printCount]_vars

C21_Witness ==
  \E s \in Slots :
    /\ jobs[s].pc = "done" /\ jobs[s].cleanup = "failed"
    /\ jobs[s].filePath \in files
    /\ Len(jobs[s].resp) = 1 /\ jobs[s].resp[1].status = 200

\* the job of slot s was answered 500 after its dispatch failed
DispatchFailed(s) ==
  /\ jobs[s].log # <<>>
  /\ jobs[s].resp # <<>> /\ jobs[s].resp[1].status = 500

\* C22: the error string of a dispatch failure does not depend on the OS
\* error: two failed jobs whose OS invocations were the same, command, file,
\* printer and copies, and differ only in how the failed invocation failed,
\* are answered with the same error string, on either platform.
C22_GenericDispatchError ==
  \A s, t \in ConcSlots :
    (DispatchFailed(s) /\ DispatchFailed(t) /\ jobs[s].log = jobs[t].log) =>
      jobs[s].resp[1].body.error = jobs[t].resp[1].body.error

\* C23: a timeout of an external command is a failure of that method or
\* query only.  A timed-out Windows print method moves the chain to the next
\* method, or ends it with "All Windows printing methods failed" when none is
\* left; a timed-out inventory query gives absent (default) or the empty
\* list; and no step, timed out or not, takes the server out of its
\* listening state.
C23_TimeoutNeverFatal ==
  [][/\ \A s \in Slots :
          (platform = "win32" /\ InvocationDone(s, "timeout")) =>
            /\ jobs'[s].log[Len(jobs[s].log)].result = "failed"
            /\ IF jobs'[s].pc = "exec"
               THEN /\ Len(jobs'[s].log) = Len(jobs[s].log) + 1
                    /\ jobs'[s].log[Len(jobs'[s].log)].method = jobs[s].method + 1
               ELSE /\ jobs'[s].pc = "rm"
                    /\ jobs'[s].resp[1].status = 500
                    /\ jobs'[s].resp[1].body.error = <<"All Windows printing methods failed">>
     /\ DetectDefaultDone("timeout") => (printerName' = "" /\ boot' = "listPrinters")
     /\ ListPrintersDone("timeout") => (availablePrinters' = <<>> /\ boot' = "listening")
     /\ \A r \in RefreshSlots :
          RefreshDone(r, "timeout") =>
            /\ availablePrinters' = <<>>
            /\ refresh'[r].pc = "done" /\ refresh'[r].resp[1].status = 200
     /\ boot = "listening" => boot' = "listening"]_vars

C23_Witness ==
  \E s \in Slots :
    /\ platform = "win32" /\ boot = "listening"
    /\ refresh[1].pc = "done" /\ refresh[1].outcome = "timeout"
    /\ availablePrinters = <<>>
    /\ jobs[s].pc = "exec" /\ jobs[s].method = 2
    /\ jobs[s].log[1].result = "failed"
    /\ observed # <<>> /\ observed[1].route = "/health"

\* C24: the response to a job whose dispatch succeeded is exactly {jobId,
\* copies, printer, success: true}: copies is the value the client requested
\* (1 when it gave none), also in restricted mode, and printer the resolved
\* printer, "default" when there is neither a target nor a detected default.
C24_SuccessResponse ==
  \A s \in Slots : \A r \in Responses(s) :
    r.status = 200 =>
      /\ jobs[s].log # <<>> /\ Validated(jobs[s])
      /\ r.body = [jobId |-> jobs[s].jobId,
                   copies |-> jobs[s].copies,
                   printer |-> IF Resolved(jobs[s]) = "" THEN "default"
                               ELSE Resolved(jobs[s]),
                   success |-> TRUE]

C24_Witness ==
  \E s \in Slots :
    /\ jobs[s].resp # <<>> /\ jobs[s].resp[1].status = 200
    /\ ~jobs[s].hasAccess /\ jobs[s].copies = MaxCopies
    /\ jobs[s].resp[1].body.copies = MaxCopies
    /\ jobs[s].targetPrinter = <<>> /\ printerName = ""
    /\ jobs[s].resp[1].body.printer = "default"

\* the names of a list of at most two printers, with "," between them
Commas(list) ==
  IF Len(list) = 2 THEN <<list[1], ",", list[2]>> ELSE list

\* C25: the service record is advertised once, when the startup completes,
\* with the default printer and the printer list of that moment; no refresh
\* and no other request changes it afterwards, so after a refresh that
\* changes availablePrinters the advertised list differs from the snapshot.
C25_AdvertisedOnceAtStartup ==
  [][/\ (boot = "listPrinters" /\ boot' = "listening") =>
          /\ advertised = <<>>
          /\ advertised' = <<[printer |-> IF printerName' = "" THEN "default"
                                          ELSE printerName',
                              printers |-> Commas(availablePrinters')]>>
     /\ advertised' # advertised => boot = "listPrinters"
     /\ boot = "listening" => Len(advertised) = 1]_vars

C25_Witness ==
  \E r \in RefreshSlots :
    /\ refresh[r].pc = "done" /\ refresh[r].outcome = "ok"
    /\ availablePrinters = <<"P1">>
    /\ advertised # <<>> /\ advertised[1].printers = <<"P1", ",", "P2">>

\* the set of names a refresh handler answered with
Enumerated(r) ==
  LET list == refresh[r].resp[1].body.availablePrinters
  IN  {list[k] : k \in DOMAIN list}

\* two refresh handlers have completed against the same printers of the OS
SameOs(r1, r2) ==
  /\ refresh[r1].pc = "done" /\ refresh[r2].pc = "done"
  /\ refresh[r1].seen = refresh[r2].seen

C27_NoMoreCopiesThanRequested ==
  \A s \in DOMAIN jobs :
    platform = "win32" =>
      OkCount(jobs[s], 2) + OkCount(jobs[s], 3)
        <= IF EffectiveCopies(jobs[s]) > 0 THEN EffectiveCopies(jobs[s]) ELSE 0

\* C28: a job is answered with success only if one of its OS print
\* invocations succeeded, whatever copies value was requested.
C28_SuccessNeedsSuccessfulInvocation ==
  \A s \in DOMAIN jobs :
    (jobs[s].resp # <<>> /\ jobs[s].resp[1].status = 200) =>
      \E k \in DOMAIN jobs[s].log : jobs[s].log[k].result = "ok"

\* the invocation names the printer (method 1 with its quotes doubled)
Targets(inv, printer) ==
  inv.printer = <<IF inv.method = 1 /\ printer = "O'Neil" THEN "O''Neil" ELSE printer>>

\* C29: a job with an explicit, non-blank targetPrinter that is answered with
\* success reports that printer, and every OS invocation of it that succeeded
\* named that printer.
C29_SuccessOnTargetedPrinter ==
  \A s \in DOMAIN jobs :
    LET j == jobs[s]
    IN  (/\ j.resp # <<>> /\ j.resp[1].status = 200
         /\ j.targetPrinter # <<>> /\ j.targetPrinter[1] \notin {"", "  "})
          => /\ j.resp[1].body.printer = j.targetPrinter[1]
             /\ \A k \in DOMAIN j.log :
                  j.log[k].result = "ok" => Targets(j.log[k], j.targetPrinter[1])

\* C30: every POST /print request is answered exactly once: a handler never
\* has sent two responses, and every request that arrived leads to its
\* handler having returned with one response sent, whatever the outcomes of
\* the write, of the dispatch and of the cleanup.
C30_ExactlyOneResponse ==
  /\ [](\A s \in Slots : Len(jobs[s].resp) <= 1)
  /\ \A s \in Slots :
       (jobs[s].pc # "idle") ~> (jobs[s].pc = "done" /\ Len(jobs[s].resp) = 1)

C30_Witness ==
  \E s \in Slots :
    /\ jobs[s].pc = "done" /\ Len(jobs[s].resp) = 1
    /\ jobs[s].resp[1].status = 500
    /\ jobs[s].log # <<>> /\ jobs[s].cleanup = "failed"

\* refresh a was started before refresh b, which has completed while a is
\* still running
Overtaken(a, b) ==
  /\ refresh[a].pc = "query"
  /\ refresh[b].pc = "done" /\ a \in refresh[b].overlaps

\* C31: when two refreshes overlap, the one started first never overwrites
\* the result of the one started last: availablePrinters keeps what the
\* later-started query returned.
C31_LaterStartedRefreshWins ==
  [][\A a, b \in RefreshSlots :
       (Overtaken(a, b) /\ Completes(a)) =>
         availablePrinters' = refresh[b].resp[1].body.availablePrinters]_vars

\* the earlier-started refresh has left a list read before a printer was
\* installed, over the complete list of the later-started one
C31_StaleInventory ==
  \E a, b \in RefreshSlots :
    /\ refresh[a].pc = "done" /\ refresh[a].outcome = "ok"
    /\ refresh[b].pc = "done" /\ refresh[b].outcome = "ok"
    /\ a \in refresh[b].overlaps
    /\ refresh[b].resp[1].body.availablePrinters = <<"P1", "P2">>
    /\ osPrinters = <<"P1", "P2">>
    /\ availablePrinters = <<"P1">>

\* a handler of some route runs in this step
HandlerRuns ==
  \/ observed' # observed
  \/ \E s \in Slots : jobs'[s] # jobs[s]
  \/ \E r \in RefreshSlots : refresh'[r] # refresh[r]

\* C32: while a startup query is still running no handler runs and nothing is
\* advertised; the printer list is queried after the default printer; and a
\* handler runs only once the record is advertised, in a state whose
\* snapshot the startup has written.
C32_NothingBeforeStartupCompletes ==
  [][/\ boot # "listening" => (advertised = <<>> /\ ~HandlerRuns)
     /\ boot = "detectDefault" => (availablePrinters' = <<>> /\ advertised' = <<>>)
     /\ HandlerRuns =>
          /\ boot = "listening" /\ Len(advertised) = 1
          /\ advertised[1].printer = IF printerName = "" THEN "default" ELSE printerName]_vars

C32_Witness ==
  /\ boot = "listening" /\ Len(advertised) = 1
  /\ printerName = "P1" /\ availablePrinters = <<"P1", "P2">>
  /\ observed # <<>> /\ observed[1].route = "/info"
  /\ observed[1].body.availablePrinters = <<"P1", "P2">>
  /\ \E s \in Slots : jobs[s].pc = "write"

\* the files created or removed in this step
Touched == (files' \ files) \cup (files \ files')

\* C33: the placeholder file exists in every reachable state: a step creates
\* or removes only the temporary path of a job, which is never the
\* placeholder's, also when restricted mode made the job print the
\* placeholder.
C33_PlaceholderNeverTouched ==
  /\ [](watermarkPath \in files)
  /\ [][/\ watermarkPath \notin Touched
        /\ Touched \subseteq {jobs[s].filePath : s \in Slots}
        /\ \A s \in Slots : jobs[s].filePath # watermarkPath]_vars

C33_Witness ==
  \E s \in Slots :
    /\ jobs[s].pc = "done" /\ jobs[s].cleanup = "ok"
    /\ ~jobs[s].hasAccess /\ jobs[s].fileToPrint = watermarkPath
    /\ \E k \in DOMAIN jobs[s].log : jobs[s].log[k].result = "ok"
    /\ jobs[s].filePath \notin files /\ watermarkPath \in files

\* the write of the artifact of job s fails in this step: it settles and
\* the file is not there
WriteFails(s) ==
  /\ jobs[s].pc = "write" /\ jobs'[s].pc # "write"
  /\ jobs[s].filePath \notin files'

\* C34: when the write of the artifact fails, print() is not called and no
\* OS invocation is made for the job, now or later; the job is answered 500
\* with success false, the counter is unchanged, and the removal of the
\* artifact path is started and has been attempted when the handler returns.
C34_WriteFailureSkipsDispatch ==
  [][\A s \in Slots :
       /\ WriteFails(s) =>
            /\ jobs'[s].log = <<>> /\ jobs'[s].fileToPrint = <<>>
            /\ jobs'[s].err # <<>> /\ jobs'[s].pc = "rm"
            /\ Len(jobs'[s].resp) = 1
            /\ jobs'[s].resp[1].status = 500
            /\ jobs'[s].resp[1].body.success = FALSE
            /\ printCount' = printCount
       /\ (jobs[s].err # <<>> /\ jobs'[s].pc # "idle") =>
            /\ jobs'[s].log = jobs[s].log /\ jobs'[s].resp = jobs[s].resp
            /\ jobs'[s].pc = "done" /\ jobs'[s].cleanup # ""]_vars

C34_Witness ==
  \E s \in Slots :
    /\ jobs[s].pc = "done" /\ jobs[s].log = <<>> /\ jobs[s].jobId # ""
    /\ jobs[s].err # <<>> /\ jobs[s].cleanup = "ok"
    /\ jobs[s].resp[1].status = 500
    /\ jobs[s].filePath \notin files

\* the dispatch of job s succeeds in this step
DispatchSucceeds(s) ==
  /\ jobs[s].pc = "exec"
  /\ jobs'[s].resp # <<>> /\ jobs'[s].resp[1].status = 200

\* C35: printCount changes only in a step in which the dispatch of a job
\* succeeds, and then grows by the copies dispatched for that job: the
\* requested count, or 1 in restricted mode.
C35_CounterCountsDispatchedCopies ==
  [][/\ printCount' # printCount => \E s \in Slots : DispatchSucceeds(s)
     /\ \A s \in Slots :
          DispatchSucceeds(s) =>
            printCount' = printCount + EffectiveCopies(jobs'[s])]_vars

\* C36: two jobs that differ only in the paper size never differ in what
\* they hand to an OS invocation: whenever both have invoked the same method,
\* the two invocations carry the same command, file, copy count and printer
\* name (which methods each of them gets to depends on the outcomes only).
C36_PaperSizeNeverReachesInvocation ==
  \A k1 \in DOMAIN jobs[1].log, k2 \in DOMAIN jobs[2].log :
    LET a == jobs[1].log[k1]
        b == jobs[2].log[k2]
    IN  a.method = b.method =>
          /\ a.cmd = b.cmd /\ a.args = b.args
          /\ a.file = b.file /\ a.copies = b.copies /\ a.printer = b.printer

C36_Witness ==
  /\ platform = "win32"
  /\ jobs[1].paperSize = <<>> /\ jobs[2].paperSize # <<>>
  /\ jobs[1].hasAccess /\ jobs[1].copies = MaxCopies /\ jobs[1].selectedPrinter = "P1"
  /\ jobs[1].pc = "returned" /\ Len(jobs[1].log) = 1
  /\ jobs[2].pc = "thrown" /\ Attempted(jobs[2], 3)

\* C37: for a job of POST /print the file given to the Windows chain is the
\* artifact, named .jpg or .png, or the placeholder, a .jpg: it has an image
\* extension, so method 3 is attempted whenever method 2 failed, and the job
\* fails with "All Windows printing methods failed" only after methods 1, 2
\* and 3 were each attempted and failed.
C37_ChainGetsImageFile ==
  \A s \in Slots :
    LET j == jobs[s]
    IN  (platform = "win32" /\ j.fileToPrint # <<>>) =>
          /\ HasImageExtension(j.fileToPrint)
          /\ j.fileToPrint[Len(j.fileToPrint)] =
               (IF j.hasAccess THEN j.ext ELSE "jpg")
          /\ j.ext \in {"jpg", "png"}
          /\ Failed(j, 2) => Attempted(j, 3)
          /\ j.err = <<"All Windows printing methods failed">> =>
               (Failed(j, 1) /\ Failed(j, 2) /\ Failed(j, 3))

C37_Witness ==
  \E s \in Slots :
    /\ platform = "win32" /\ jobs[s].hasAccess /\ jobs[s].ext = "png"
    /\ jobs[s].err = <<"All Windows printing methods failed">>
    /\ Failed(jobs[s], 3) /\ OkCount(jobs[s], 3) = 1
    /\ jobs[s].resp # <<>> /\ jobs[s].resp[1].status = 500

\* C38: on Windows an invocation of method 2 never carries a printer name,
\* and an invocation of method 3 carries the job's printer name exactly when
\* the name is not blank; methods 2 and 3 are given the same file as method
\* 1, and neither makes more invocations than the copy count method 1
\* carried.
C38_PrinterTargetingPerMethod ==
  \A s \in Slots :
    LET j == jobs[s]
    IN  platform = "win32" =>
          /\ \A k \in DOMAIN j.log :
               /\ j.log[k].method = 2 => j.log[k].printer = <<>>
               /\ j.log[k].method = 3 =>
                    j.log[k].printer = IF j.selectedPrinter \in {"", "  "} THEN <<>>
                                       ELSE <<j.selectedPrinter>>
               /\ j.log[k].file = j.log[1].file
          /\ \A m \in {2, 3} :
               Count(j, m) <= IF EffectiveCopies(j) > 0 THEN EffectiveCopies(j) ELSE 0

C38_Witness ==
  \E s \in Slots :
    /\ platform = "win32" /\ jobs[s].selectedPrinter = "P1"
    /\ jobs[s].hasAccess /\ jobs[s].copies = MaxCopies
    /\ jobs[s].pc = "returned"
    /\ Count(jobs[s], 2) = 1 /\ OkCount(jobs[s], 3) = MaxCopies
    /\ \E k \in DOMAIN jobs[s].log :
         jobs[s].log[k].method = 3 /\ jobs[s].log[k].printer = <<"P1">>

=============================================================================
